---- MODULE Spec2Model ----
(***************************************************************************)
(* The scaffolding utilities of operations/base/utils/__init__.py:         *)
(* library_exists, operation_exists, library_create, operation_create,     *)
(* replace_placeholders_in_file and to_camel_case, over a filesystem of    *)
(* directories and text files.  A text is a sequence of one-character      *)
(* strings; a path is a sequence of names.                                 *)
(***************************************************************************)
EXTENDS Integers, Sequences, FiniteSets, TLC

(***************************************************************************)
(* Bounds of the model.                                                    *)
(***************************************************************************)
\* calls one run of the sequential or the concurrent specification makes
MaxCalls == 3
\* length of the generated inputs of to_camel_case
MaxLen == 3
\* length of the generated file contents of replace_placeholders_in_file
MaxText == 3

(***************************************************************************)
(* Characters and the str methods the code uses.                           *)
(***************************************************************************)
LowerLetters ==
    <<"a", "b", "c", "d", "e", "f", "g", "h", "i", "j", "k", "l", "m",
      "n", "o", "p", "q", "r", "s", "t", "u", "v", "w", "x", "y", "z">>

UpperLetters ==
    <<"A", "B", "C", "D", "E", "F", "G", "H", "I", "J", "K", "L", "M",
      "N", "O", "P", "Q", "R", "S", "T", "U", "V", "W", "X", "Y", "Z">>

IndexIn(c, letters) ==
    IF \E i \in 1..Len(letters) : letters[i] = c
    THEN CHOOSE i \in 1..Len(letters) : letters[i] = c
    ELSE 0

IsCased(c) == IndexIn(c, LowerLetters) > 0 \/ IndexIn(c, UpperLetters) > 0

ToUpper(c) ==
    IF IndexIn(c, LowerLetters) > 0 THEN UpperLetters[IndexIn(c, LowerLetters)] ELSE c

ToLower(c) ==
    IF IndexIn(c, UpperLetters) > 0 THEN LowerLetters[IndexIn(c, UpperLetters)] ELSE c

\* str.lower()
str_lower(s) == [i \in 1..Len(s) |-> ToLower(s[i])]

\* str.title(): a letter that follows a cased character is lowercased, every
\* other letter (at the start, after "_", a digit, a blank) is uppercased.
str_title(s) ==
    [i \in 1..Len(s) |->
        IF i > 1 /\ IsCased(s[i - 1]) THEN ToLower(s[i]) ELSE ToUpper(s[i])]

\* str.split(sep) for a one-character separator: never an empty list.
RECURSIVE str_split(_, _)
str_split(s, sep) ==
    IF \A i \in 1..Len(s) : s[i] # sep
    THEN <<s>>
    ELSE LET i == CHOOSE k \in 1..Len(s) :
                     s[k] = sep /\ \A j \in 1..(k - 1) : s[j] # sep
         IN  <<SubSeq(s, 1, i - 1)>> \o str_split(SubSeq(s, i + 1, Len(s)), sep)

\* ''.join(parts)
RECURSIVE str_join(_)
str_join(parts) ==
    IF parts = <<>> THEN <<>> ELSE Head(parts) \o str_join(Tail(parts))

StartsWith(s, old) == Len(old) <= Len(s) /\ SubSeq(s, 1, Len(old)) = old

\* str.replace(old, new) for a non-empty old: every non-overlapping
\* occurrence, scanning from the left.
RECURSIVE replace_scan(_, _, _)
replace_scan(s, old, new) ==
    IF Len(s) < Len(old) THEN s
    ELSE IF StartsWith(s, old)
         THEN new \o replace_scan(SubSeq(s, Len(old) + 1, Len(s)), old, new)
         ELSE <<Head(s)>> \o replace_scan(Tail(s), old, new)

\* str.replace("", new): new before every character and at the end.
RECURSIVE replace_empty(_, _)
replace_empty(s, new) ==
    IF s = <<>> THEN new ELSE new \o <<Head(s)>> \o replace_empty(Tail(s), new)

\* str.replace(old, new) with count = 1, the first occurrence only
RECURSIVE str_replace_first(_, _, _)
str_replace_first(s, old, new) ==
    IF Len(s) < Len(old) THEN s
    ELSE IF StartsWith(s, old)
         THEN new \o SubSeq(s, Len(old) + 1, Len(s))
         ELSE <<Head(s)>> \o str_replace_first(Tail(s), old, new)

str_replace(s, old, new) ==
    IF old = <<>> THEN replace_empty(s, new) ELSE replace_scan(s, old, new)

(***************************************************************************)
(* to_camel_case                                                           *)
(***************************************************************************)
\* the first component left as it is: lowerCamelCase
to_camel_case_lower_first(snake_str) ==
    LET components == str_split(snake_str, "_")
    IN  components[1]
          \o str_join([i \in 1..(Len(components) - 1) |-> str_title(components[i + 1])])

to_camel_case(snake_str) ==
    LET components == str_split(snake_str, "_")
    IN  str_title(components[1])
          \o str_join([i \in 1..(Len(components) - 1) |-> str_title(components[i + 1])])

(***************************************************************************)
(* Names and paths.  A name is a string; Chars gives its spelling, Implode *)
(* the name a spelling belongs to.  A path is the sequence of its names,   *)
(* relative to the working directory.                                      *)
(***************************************************************************)
LibraryNames == {"lib", "Lib"}

OperationNames == {"do_thing", "n_e_w_o_p_e_r_a_t_i_o_n"}

\* "ops" is an existing directory, "nodir" does not exist
OutDirs == {<<"ops">>, <<"nodir">>}

Chars(name) ==
    CASE name = "lib" -> <<"l", "i", "b">>
      [] name = "Lib" -> <<"L", "i", "b">>
      [] name = "do_thing" -> <<"d", "o", "_", "t", "h", "i", "n", "g">>
      [] name = "n_e_w_o_p_e_r_a_t_i_o_n" ->
             <<"n", "_", "e", "_", "w", "_", "o", "_", "p", "_", "e", "_",
               "r", "_", "a", "_", "t", "_", "i", "_", "o", "_", "n">>

Implode(chars) ==
    CHOOSE name \in LibraryNames \cup OperationNames : Chars(name) = chars

\* os.path.join(path, name)
Join(path, name) == Append(path, name)

INIT_PY == "__init__.py"

LIBRARYNAME == <<"L", "I", "B", "R", "A", "R", "Y", "N", "A", "M", "E">>

NEWOPERATION == <<"N", "E", "W", "O", "P", "E", "R", "A", "T", "I", "O", "N">>

\* os.path.join('operations','base','utils','templates', kind)
TemplatePath(kind) == <<"operations", "base", "utils", "templates", kind>>

\* The two template trees: one initializer file each, holding the marker.
LibraryTemplateInit ==
    <<"n", "a", "m", "e", " ", "=", " ", "'",
      "L", "I", "B", "R", "A", "R", "Y", "N", "A", "M", "E", "'">>

OperationTemplateInit ==
    <<"c", "l", "a", "s", "s", " ",
      "N", "E", "W", "O", "P", "E", "R", "A", "T", "I", "O", "N", ":">>

\* the names tempfile.mkdtemp draws from; it returns one not in use
TmpNames ==
    <<"tmp_a", "tmp_b", "tmp_c", "tmp_d", "tmp_e", "tmp_f", "tmp_g", "tmp_h", "tmp_i", "tmp_j">>

TempRoot == <<"tmp">>

Procs == {"p1", "p2"}

\* the caller of the sequential specifications
Main == "p1"

(***************************************************************************)
(* State: the filesystem (dirs, files), and per caller the position (pc),  *)
(* the call in progress, the return labels of the calls it is inside       *)
(* (stack), the locals of library_create (lc), operation_create (oc),      *)
(* replace_placeholders_in_file (rp) and shutil.copytree (ct), and the     *)
(* outcome of its last call (result).  History: pre is the filesystem at   *)
(* the caller's last call, ncalls the calls made, copies the number of     *)
(* copytree runs that created each destination.                            *)
(***************************************************************************)
VARIABLES dirs, files, pc, call, stack, lc, oc, rp, ct, result, pre, ncalls, copies

vars == <<dirs, files, pc, call, stack, lc, oc, rp, ct, result, pre, ncalls, copies>>

NoLc == [library_name |-> "", out_dir |-> <<>>, tmp_dir |-> <<>>]

NoOc == [operations_dir |-> <<>>, library_name |-> "", operation_name |-> "",
         tmp_dir |-> <<>>]

NoRp == [file_path |-> <<>>, placeholders |-> <<>>, i |-> 0, new_text |-> <<>>]

NoCt == [src |-> <<>>, dst |-> <<>>, entries |-> <<>>]

NoCall == [op |-> "none", args |-> <<>>]

NoResult == [kind |-> "none", value |-> ""]

Raised(e) == [kind |-> "raise", value |-> e]

Returned(v) == [kind |-> "return", value |-> v]

\* the non-empty prefixes of a path: the directories os.makedirs creates
Prefixes(path) == {SubSeq(path, 1, k) : k \in 1..Len(path)}

IsUnder(path, top) == Len(path) >= Len(top) /\ SubSeq(path, 1, Len(top)) = top

os_path_isdir(path) == path \in dirs

os_path_isfile(path) == path \in DOMAIN files

\* the filesystem before any call: the two templates, the system temporary
\* directory and the empty directory "ops"
InitDirs ==
    Prefixes(TemplatePath("make_library")) \cup Prefixes(TemplatePath("make_operation"))
        \cup {TempRoot, <<"ops">>}

InitFiles ==
    (Join(TemplatePath("make_library"), INIT_PY) :> LibraryTemplateInit)
        @@ (Join(TemplatePath("make_operation"), INIT_PY) :> OperationTemplateInit)

(***************************************************************************)
(* library_exists and operation_exists                                     *)
(***************************************************************************)
\* without the check of operations_dir: a missing root reads as "no library"
library_exists_unchecked(name, operations_dir) ==
    Returned(os_path_isdir(Join(operations_dir, name)))

library_exists(name, operations_dir) ==
    IF ~os_path_isdir(operations_dir)
    THEN Raised("FileNotFoundError")
    ELSE Returned(os_path_isdir(Join(operations_dir, name)))

operation_exists(operations_dir, library_name, operation_name) ==
    IF ~os_path_isdir(operations_dir)
    THEN Raised("FileNotFoundError")
    ELSE LET lib == library_exists(library_name, operations_dir)
         IN  IF lib.kind = "raise" THEN lib
             ELSE IF ~lib.value THEN Raised("LibraryNotFound")
             ELSE Returned(os_path_isfile(
                      Join(Join(Join(operations_dir, library_name), operation_name),
                           INIT_PY)))

(***************************************************************************)
(* Calls, returns and exceptions.                                          *)
(***************************************************************************)
Snapshot == [dirs |-> dirs, files |-> files]

CanCall(p) == pc[p] \in {"idle", "done"} /\ ncalls < MaxCalls

\* p starts the call c at label entry
Enter(p, c, entry) ==
    /\ call' = [call EXCEPT ![p] = c]
    /\ pc' = [pc EXCEPT ![p] = entry]
    /\ stack' = [stack EXCEPT ![p] = <<>>]
    /\ result' = [result EXCEPT ![p] = NoResult]
    /\ pre' = [pre EXCEPT ![p] = Snapshot]
    /\ ncalls' = ncalls + 1

\* p's call ends with outcome r (a return value or an uncaught exception):
\* every frame of p is dropped
Finish(p, r) ==
    /\ pc' = [pc EXCEPT ![p] = "done"]
    /\ result' = [result EXCEPT ![p] = r]
    /\ stack' = [stack EXCEPT ![p] = <<>>]
    /\ lc' = [lc EXCEPT ![p] = NoLc]
    /\ oc' = [oc EXCEPT ![p] = NoOc]
    /\ rp' = [rp EXCEPT ![p] = NoRp]
    /\ ct' = [ct EXCEPT ![p] = NoCt]

\* p moves to label l inside the same function
Goto(p, l) == pc' = [pc EXCEPT ![p] = l] /\ UNCHANGED <<stack, result>>

\* p calls a function of this module at label entry and comes back at back
CallSub(p, entry, back) ==
    /\ pc' = [pc EXCEPT ![p] = entry]
    /\ stack' = [stack EXCEPT ![p] = <<back>> \o stack[p]]
    /\ UNCHANGED result

\* p returns from a function called by CallSub
ReturnSub(p) ==
    /\ pc' = [pc EXCEPT ![p] = Head(stack[p])]
    /\ stack' = [stack EXCEPT ![p] = Tail(stack[p])]
    /\ UNCHANGED result

(***************************************************************************)
(* The existence checks as operations                                      *)
(***************************************************************************)
Call_library_exists(p) ==
    /\ CanCall(p)
    /\ \E name \in LibraryNames, operations_dir \in OutDirs :
          Enter(p, [op |-> "library_exists", args |-> <<name, operations_dir>>],
                "le_eval")
    /\ UNCHANGED <<dirs, files, lc, oc, rp, ct, copies>>

le_eval(p) ==
    /\ pc[p] = "le_eval"
    /\ Finish(p, library_exists(call[p].args[1], call[p].args[2]))
    /\ UNCHANGED <<dirs, files, call, pre, ncalls, copies>>

Call_operation_exists(p) ==
    /\ CanCall(p)
    /\ \E operations_dir \in OutDirs, library_name \in LibraryNames,
          operation_name \in OperationNames :
          Enter(p, [op |-> "operation_exists",
                    args |-> <<operations_dir, library_name, operation_name>>],
                "oe_eval")
    /\ UNCHANGED <<dirs, files, lc, oc, rp, ct, copies>>

oe_eval(p) ==
    /\ pc[p] = "oe_eval"
    /\ Finish(p, operation_exists(call[p].args[1], call[p].args[2], call[p].args[3]))
    /\ UNCHANGED <<dirs, files, call, pre, ncalls, copies>>

(***************************************************************************)
(* shutil.copytree(src, dst) and shutil.rmtree(path), as the code uses     *)
(* them: on trees whose entries are files.                                 *)
(***************************************************************************)
RECURSIVE SetToSeq(_)
SetToSeq(S) ==
    IF S = {} THEN <<>>
    ELSE LET x == CHOOSE y \in S : TRUE IN <<x>> \o SetToSeq(S \ {x})

\* os.scandir(path): the names of the entries of directory path
ListDir(path) ==
    SetToSeq({f[Len(f)] : f \in {g \in DOMAIN files :
                                     Len(g) = Len(path) + 1 /\ IsUnder(g, path)}})

\* dirs_exist_ok = True: an existing destination is copied into
ct_dst_taken_never(dst) == FALSE

\* os.makedirs(dst) raises FileExistsError when dst exists
ct_dst_taken(dst) == os_path_isdir(dst) \/ os_path_isfile(dst)

ct_scandir(p) ==
    /\ pc[p] = "ct_scandir"
    /\ ct' = [ct EXCEPT ![p].entries = ListDir(ct[p].src)]
    /\ Goto(p, "ct_makedirs")
    /\ UNCHANGED <<dirs, files, call, lc, oc, rp, pre, ncalls, copies>>

ct_makedirs(p) ==
    /\ pc[p] = "ct_makedirs"
    /\ IF ct_dst_taken(ct[p].dst)
       THEN /\ Finish(p, Raised("FileExistsError"))
            /\ UNCHANGED <<dirs, files, call, pre, ncalls, copies>>
       ELSE /\ dirs' = dirs \cup Prefixes(ct[p].dst)
            /\ copies' = [d \in DOMAIN copies \cup {ct[p].dst} |->
                            (IF d \in DOMAIN copies THEN copies[d] ELSE 0)
                              + (IF d = ct[p].dst THEN 1 ELSE 0)]
            /\ Goto(p, "ct_copy")
            /\ UNCHANGED <<files, call, lc, oc, rp, ct, pre, ncalls>>

\* one entry copied (copy2), or the return when none is left
ct_copy(p) ==
    /\ pc[p] = "ct_copy"
    /\ IF ct[p].entries = <<>>
       THEN /\ ReturnSub(p)
            /\ ct' = [ct EXCEPT ![p] = NoCt]
            /\ UNCHANGED <<dirs, files, call, lc, oc, rp, pre, ncalls, copies>>
       ELSE LET name == Head(ct[p].entries)
                srcname == Join(ct[p].src, name)
                dstname == Join(ct[p].dst, name)
            IN  /\ files' = [f \in DOMAIN files \cup {dstname} |->
                               IF f = dstname THEN files[srcname] ELSE files[f]]
                /\ ct' = [ct EXCEPT ![p].entries = Tail(ct[p].entries)]
                /\ Goto(p, "ct_copy")
                /\ UNCHANGED <<dirs, call, lc, oc, rp, pre, ncalls, copies>>

\* the directories and files left when shutil.rmtree(path) has run
DirsWithout(path) == {d \in dirs : ~IsUnder(d, path)}

FilesWithout(path) == [f \in {g \in DOMAIN files : ~IsUnder(g, path)} |-> files[f]]

(***************************************************************************)
(* replace_placeholders_in_file(file_path, placeholders); placeholders is  *)
(* the sequence of the dict's <<key, value>> entries in iteration order.   *)
(***************************************************************************)
\* only the first occurrence replaced
rp_new_text_first(text, key, value) == str_replace_first(text, key, value)

\* the text one pass of the loop writes back
rp_new_text(text, key, value) == str_replace(text, key, value)

rp_check(p) ==
    /\ pc[p] = "rp_check"
    /\ IF ~os_path_isfile(rp[p].file_path)
       THEN /\ Finish(p, Raised("FileNotFoundError"))
            /\ UNCHANGED <<dirs, files, call, pre, ncalls, copies>>
       ELSE /\ Goto(p, "rp_for")
            /\ UNCHANGED <<dirs, files, call, lc, oc, rp, ct, pre, ncalls, copies>>

\* for key in placeholders: the next key, or the return after the last
rp_for(p) ==
    /\ pc[p] = "rp_for"
    /\ IF rp[p].i < Len(rp[p].placeholders)
       THEN /\ rp' = [rp EXCEPT ![p].i = @ + 1]
            /\ Goto(p, "rp_read")
            /\ UNCHANGED <<dirs, files, call, lc, oc, ct, pre, ncalls, copies>>
       ELSE IF stack[p] = <<>>
            THEN /\ Finish(p, Returned("None"))
                 /\ UNCHANGED <<dirs, files, call, pre, ncalls, copies>>
            ELSE /\ ReturnSub(p)
                 /\ rp' = [rp EXCEPT ![p] = NoRp]
                 /\ UNCHANGED <<dirs, files, call, lc, oc, ct, pre, ncalls, copies>>

rp_read(p) ==
    /\ pc[p] = "rp_read"
    /\ LET entry == rp[p].placeholders[rp[p].i]
       IN  rp' = [rp EXCEPT ![p].new_text =
                      rp_new_text(files[rp[p].file_path], entry[1], entry[2])]
    /\ Goto(p, "rp_write")
    /\ UNCHANGED <<dirs, files, call, lc, oc, ct, pre, ncalls, copies>>

rp_write(p) ==
    /\ pc[p] = "rp_write"
    /\ files' = [files EXCEPT ![rp[p].file_path] = rp[p].new_text]
    /\ Goto(p, "rp_for")
    /\ UNCHANGED <<dirs, call, lc, oc, rp, ct, pre, ncalls, copies>>

(***************************************************************************)
(* tempfile.mkdtemp(): a new directory under the system temporary          *)
(* directory, named as no existing entry is.                               *)
(***************************************************************************)
TmpAvailable == \E k \in 1..Len(TmpNames) : Join(TempRoot, TmpNames[k]) \notin dirs

mkdtemp ==
    LET k == CHOOSE i \in 1..Len(TmpNames) :
                 /\ Join(TempRoot, TmpNames[i]) \notin dirs
                 /\ \A j \in 1..(i - 1) : Join(TempRoot, TmpNames[j]) \in dirs
    IN  Join(TempRoot, TmpNames[k])

(***************************************************************************)
(* library_create(library_name, out_dir)                                   *)
(***************************************************************************)
library_new_path(p) ==
    Join(lc[p].out_dir, Implode(str_lower(Chars(lc[p].library_name))))

Call_library_create(p) ==
    /\ CanCall(p)
    /\ \E library_name \in LibraryNames, out_dir \in OutDirs :
          /\ Enter(p, [op |-> "library_create", args |-> <<library_name, out_dir>>],
                   "lc_exists")
          /\ lc' = [lc EXCEPT ![p] = [library_name |-> library_name,
                                      out_dir |-> out_dir, tmp_dir |-> <<>>]]
    /\ UNCHANGED <<dirs, files, oc, rp, ct, copies>>

\* the existence check dropped: creation is attempted over an existing library
lc_exists_no_raise(p) ==
    /\ pc[p] = "lc_exists"
    /\ LET r == library_exists(lc[p].library_name, lc[p].out_dir)
       IN  IF r.kind = "raise"
           THEN /\ Finish(p, r)
                /\ UNCHANGED <<dirs, files, call, pre, ncalls, copies>>
           ELSE /\ Goto(p, "lc_isdir")
                /\ UNCHANGED <<dirs, files, call, lc, oc, rp, ct, pre, ncalls, copies>>

lc_exists(p) ==
    /\ pc[p] = "lc_exists"
    /\ LET r == library_exists(lc[p].library_name, lc[p].out_dir)
       IN  IF r.kind = "raise"
           THEN /\ Finish(p, r)
                /\ UNCHANGED <<dirs, files, call, pre, ncalls, copies>>
           ELSE IF r.value
           THEN /\ Finish(p, Raised("LibraryException"))
                /\ UNCHANGED <<dirs, files, call, pre, ncalls, copies>>
           ELSE /\ Goto(p, "lc_isdir")
                /\ UNCHANGED <<dirs, files, call, lc, oc, rp, ct, pre, ncalls, copies>>

lc_isdir(p) ==
    /\ pc[p] = "lc_isdir"
    /\ IF ~os_path_isdir(lc[p].out_dir)
       THEN /\ Finish(p, Raised("FileNotFoundError"))
            /\ UNCHANGED <<dirs, files, call, pre, ncalls, copies>>
       ELSE /\ Goto(p, "lc_mkdtemp")
            /\ UNCHANGED <<dirs, files, call, lc, oc, rp, ct, pre, ncalls, copies>>

lc_mkdtemp(p) ==
    /\ pc[p] = "lc_mkdtemp"
    /\ TmpAvailable
    /\ dirs' = dirs \cup {mkdtemp}
    /\ lc' = [lc EXCEPT ![p].tmp_dir = Join(mkdtemp, "tmp")]
    /\ Goto(p, "lc_copy_tpl")
    /\ UNCHANGED <<files, call, oc, rp, ct, pre, ncalls, copies>>

lc_copy_tpl(p) ==
    /\ pc[p] = "lc_copy_tpl"
    /\ ct' = [ct EXCEPT ![p] = [src |-> TemplatePath("make_library"),
                                dst |-> lc[p].tmp_dir, entries |-> <<>>]]
    /\ CallSub(p, "ct_scandir", "lc_replace")
    /\ UNCHANGED <<dirs, files, call, lc, oc, rp, pre, ncalls, copies>>

\* the substitution skipped: the staged tree goes to the destination as copied
lc_replace_skipped(p) ==
    /\ pc[p] = "lc_replace"
    /\ Goto(p, "lc_copy_dst")
    /\ UNCHANGED <<dirs, files, call, lc, oc, rp, ct, pre, ncalls, copies>>

lc_replace(p) ==
    /\ pc[p] = "lc_replace"
    /\ rp' = [rp EXCEPT ![p] =
                 [file_path |-> Join(lc[p].tmp_dir, INIT_PY),
                  placeholders |->
                      << <<LIBRARYNAME, str_lower(Chars(lc[p].library_name))>> >>,
                  i |-> 0, new_text |-> <<>>]]
    /\ CallSub(p, "rp_check", "lc_copy_dst")
    /\ UNCHANGED <<dirs, files, call, lc, oc, ct, pre, ncalls, copies>>

lc_copy_dst(p) ==
    /\ pc[p] = "lc_copy_dst"
    /\ ct' = [ct EXCEPT ![p] = [src |-> lc[p].tmp_dir,
                                dst |-> library_new_path(p), entries |-> <<>>]]
    /\ CallSub(p, "ct_scandir", "lc_rmtree")
    /\ UNCHANGED <<dirs, files, call, lc, oc, rp, pre, ncalls, copies>>

lc_rmtree(p) ==
    /\ pc[p] = "lc_rmtree"
    /\ dirs' = DirsWithout(lc[p].tmp_dir)
    /\ files' = FilesWithout(lc[p].tmp_dir)
    /\ Goto(p, "lc_return")
    /\ UNCHANGED <<call, lc, oc, rp, ct, pre, ncalls, copies>>

\* return library_new_path: to the caller of the module, or into
\* operation_create, which drops the value
lc_return(p) ==
    /\ pc[p] = "lc_return"
    /\ IF stack[p] = <<>>
       THEN /\ Finish(p, Returned(library_new_path(p)))
            /\ UNCHANGED <<dirs, files, call, pre, ncalls, copies>>
       ELSE /\ ReturnSub(p)
            /\ lc' = [lc EXCEPT ![p] = NoLc]
            /\ UNCHANGED <<dirs, files, call, oc, rp, ct, pre, ncalls, copies>>

(***************************************************************************)
(* operation_create(operations_dir, library_name, operation_name)          *)
(***************************************************************************)
operation_new_path(p) ==
    Join(Join(oc[p].operations_dir, oc[p].library_name), oc[p].operation_name)

Call_operation_create(p) ==
    /\ CanCall(p)
    /\ \E operations_dir \in OutDirs, library_name \in LibraryNames,
          operation_name \in OperationNames :
          /\ Enter(p, [op |-> "operation_create",
                       args |-> <<operations_dir, library_name, operation_name>>],
                   "oc_lib_exists")
          /\ oc' = [oc EXCEPT ![p] = [operations_dir |-> operations_dir,
                                      library_name |-> library_name,
                                      operation_name |-> operation_name,
                                      tmp_dir |-> <<>>]]
    /\ UNCHANGED <<dirs, files, lc, rp, ct, copies>>

oc_lib_exists(p) ==
    /\ pc[p] = "oc_lib_exists"
    /\ LET r == library_exists(oc[p].library_name, oc[p].operations_dir)
       IN  IF r.kind = "raise"
           THEN /\ Finish(p, r)
                /\ UNCHANGED <<dirs, files, call, pre, ncalls, copies>>
           ELSE IF ~r.value
           THEN /\ lc' = [lc EXCEPT ![p] = [library_name |-> oc[p].library_name,
                                            out_dir |-> oc[p].operations_dir,
                                            tmp_dir |-> <<>>]]
                /\ CallSub(p, "lc_exists", "oc_op_exists")
                /\ UNCHANGED <<dirs, files, call, oc, rp, ct, pre, ncalls, copies>>
           ELSE /\ Goto(p, "oc_op_exists")
                /\ UNCHANGED <<dirs, files, call, lc, oc, rp, ct, pre, ncalls, copies>>

\* the existence check dropped: creation is attempted over an existing operation
oc_op_exists_no_raise(p) ==
    /\ pc[p] = "oc_op_exists"
    /\ LET r == operation_exists(oc[p].operations_dir, oc[p].library_name,
                                 oc[p].operation_name)
       IN  IF r.kind = "raise"
           THEN /\ Finish(p, r)
                /\ UNCHANGED <<dirs, files, call, pre, ncalls, copies>>
           ELSE /\ Goto(p, "oc_mkdtemp")
                /\ UNCHANGED <<dirs, files, call, lc, oc, rp, ct, pre, ncalls, copies>>

oc_op_exists(p) ==
    /\ pc[p] = "oc_op_exists"
    /\ LET r == operation_exists(oc[p].operations_dir, oc[p].library_name,
                                 oc[p].operation_name)
       IN  IF r.kind = "raise"
           THEN /\ Finish(p, r)
                /\ UNCHANGED <<dirs, files, call, pre, ncalls, copies>>
           ELSE IF r.value
           THEN /\ Finish(p, Raised("OperationException"))
                /\ UNCHANGED <<dirs, files, call, pre, ncalls, copies>>
           ELSE /\ Goto(p, "oc_mkdtemp")
                /\ UNCHANGED <<dirs, files, call, lc, oc, rp, ct, pre, ncalls, copies>>

oc_mkdtemp(p) ==
    /\ pc[p] = "oc_mkdtemp"
    /\ TmpAvailable
    /\ dirs' = dirs \cup {mkdtemp}
    /\ oc' = [oc EXCEPT ![p].tmp_dir = Join(mkdtemp, "tmp")]
    /\ Goto(p, "oc_copy_tpl")
    /\ UNCHANGED <<files, call, lc, rp, ct, pre, ncalls, copies>>

oc_copy_tpl(p) ==
    /\ pc[p] = "oc_copy_tpl"
    /\ ct' = [ct EXCEPT ![p] = [src |-> TemplatePath("make_operation"),
                                dst |-> oc[p].tmp_dir, entries |-> <<>>]]
    /\ CallSub(p, "ct_scandir", "oc_replace")
    /\ UNCHANGED <<dirs, files, call, lc, oc, rp, pre, ncalls, copies>>

oc_replace(p) ==
    /\ pc[p] = "oc_replace"
    /\ rp' = [rp EXCEPT ![p] =
                 [file_path |-> Join(oc[p].tmp_dir, INIT_PY),
                  placeholders |->
                      << <<NEWOPERATION, to_camel_case(Chars(oc[p].operation_name))>> >>,
                  i |-> 0, new_text |-> <<>>]]
    /\ CallSub(p, "rp_check", "oc_copy_dst")
    /\ UNCHANGED <<dirs, files, call, lc, oc, ct, pre, ncalls, copies>>

oc_copy_dst(p) ==
    /\ pc[p] = "oc_copy_dst"
    /\ ct' = [ct EXCEPT ![p] = [src |-> oc[p].tmp_dir,
                                dst |-> operation_new_path(p), entries |-> <<>>]]
    /\ CallSub(p, "ct_scandir", "oc_rmtree")
    /\ UNCHANGED <<dirs, files, call, lc, oc, rp, pre, ncalls, copies>>

oc_rmtree(p) ==
    /\ pc[p] = "oc_rmtree"
    /\ dirs' = DirsWithout(oc[p].tmp_dir)
    /\ files' = FilesWithout(oc[p].tmp_dir)
    /\ Goto(p, "oc_return")
    /\ UNCHANGED <<call, lc, oc, rp, ct, pre, ncalls, copies>>

oc_return(p) ==
    /\ pc[p] = "oc_return"
    /\ Finish(p, Returned(operation_new_path(p)))
    /\ UNCHANGED <<dirs, files, call, pre, ncalls, copies>>

(***************************************************************************)
(* The sequential specification: one caller, one call after another.       *)
(***************************************************************************)
InitLocals ==
    /\ pc = [p \in Procs |-> "idle"]
    /\ call = [p \in Procs |-> NoCall]
    /\ stack = [p \in Procs |-> <<>>]
    /\ lc = [p \in Procs |-> NoLc]
    /\ oc = [p \in Procs |-> NoOc]
    /\ rp = [p \in Procs |-> NoRp]
    /\ ct = [p \in Procs |-> NoCt]
    /\ result = [p \in Procs |-> NoResult]
    /\ ncalls = 0
    /\ copies = << >>

Init ==
    /\ dirs = InitDirs
    /\ files = InitFiles
    /\ pre = [p \in Procs |-> [dirs |-> InitDirs, files |-> InitFiles]]
    /\ InitLocals

CreateSteps(p) ==
    \/ lc_exists(p) \/ lc_isdir(p) \/ lc_mkdtemp(p) \/ lc_copy_tpl(p)
    \/ lc_replace(p) \/ lc_copy_dst(p) \/ lc_rmtree(p) \/ lc_return(p)
    \/ oc_lib_exists(p) \/ oc_op_exists(p) \/ oc_mkdtemp(p) \/ oc_copy_tpl(p)
    \/ oc_replace(p) \/ oc_copy_dst(p) \/ oc_rmtree(p) \/ oc_return(p)
    \/ ct_scandir(p) \/ ct_makedirs(p) \/ ct_copy(p)
    \/ rp_check(p) \/ rp_for(p) \/ rp_read(p) \/ rp_write(p)

Next ==
    \/ Call_library_exists(Main) \/ le_eval(Main)
    \/ Call_operation_exists(Main) \/ oe_eval(Main)
    \/ Call_library_create(Main) \/ Call_operation_create(Main)
    \/ CreateSteps(Main)

Spec == Init /\ [][Next]_vars

(***************************************************************************)
(* The concurrent specification: each caller makes one creation call, and  *)
(* the calls interleave step by step.                                      *)
(***************************************************************************)
NextConc ==
    \E p \in Procs :
        \/ pc[p] = "idle" /\ Call_library_create(p)
        \/ pc[p] = "idle" /\ Call_operation_create(p)
        \/ CreateSteps(p)

SpecConc == Init /\ [][NextConc]_vars

(***************************************************************************)
(* replace_placeholders_in_file on its own: one call, on a file of some    *)
(* content or on a missing file, with some placeholders.                   *)
(***************************************************************************)
\* dict entries of the generated placeholders
MaxKeys == 2

StringsUpTo(alphabet, n) == UNION {[1..k -> alphabet] : k \in 0..n}

HelloNAME == <<"H", "e", "l", "l", "o", " ", "N", "A", "M", "E">>

NAMEFoo == << << <<"N", "A", "M", "E">>, <<"F", "o", "o">> >> >>

Texts == StringsUpTo({"a", "b"}, MaxText) \cup {HelloNAME}

Keys == {<<>>, <<"a">>, <<"a", "b">>}

Values == {<<>>, <<"b">>, <<"a", "b">>}

\* a dict: no key twice
Placeholders ==
    {m \in UNION {[1..k -> Keys \X Values] : k \in 0..MaxKeys} :
        \A i, j \in 1..Len(m) : i # j => m[i][1] # m[j][1]}
      \cup {NAMEFoo}

ScratchFile == <<"ops", "f.txt">>

InitReplace ==
    /\ dirs = InitDirs
    /\ \E text \in Texts : files = InitFiles @@ (ScratchFile :> text)
    /\ pre = [p \in Procs |-> [dirs |-> dirs, files |-> files]]
    /\ \E file_path \in {ScratchFile, <<"ops", "missing.txt">>},
          placeholders \in Placeholders :
          /\ call = [p \in Procs |->
                        IF p = Main
                        THEN [op |-> "replace_placeholders_in_file",
                              args |-> <<file_path, placeholders>>]
                        ELSE NoCall]
          /\ rp = [p \in Procs |->
                      IF p = Main
                      THEN [file_path |-> file_path, placeholders |-> placeholders,
                            i |-> 0, new_text |-> <<>>]
                      ELSE NoRp]
    /\ pc = [p \in Procs |-> IF p = Main THEN "rp_check" ELSE "idle"]
    /\ stack = [p \in Procs |-> <<>>]
    /\ lc = [p \in Procs |-> NoLc]
    /\ oc = [p \in Procs |-> NoOc]
    /\ ct = [p \in Procs |-> NoCt]
    /\ result = [p \in Procs |-> NoResult]
    /\ ncalls = 1
    /\ copies = << >>

NextReplace == rp_check(Main) \/ rp_for(Main) \/ rp_read(Main) \/ rp_write(Main)

SpecReplace == InitReplace /\ [][NextReplace]_vars

(***************************************************************************)
(* to_camel_case on its own: one call on some string.                      *)
(***************************************************************************)
make_http_request ==
    <<"m", "a", "k", "e", "_", "h", "t", "t", "p", "_",
      "r", "e", "q", "u", "e", "s", "t">>

MakeHttpRequest ==
    <<"M", "a", "k", "e", "H", "t", "t", "p", "R", "e", "q", "u", "e", "s", "t">>

CamelInputs == StringsUpTo({"a", "B", "_", "1"}, MaxLen) \cup {make_http_request}

InitCamel ==
    /\ dirs = InitDirs
    /\ files = InitFiles
    /\ pre = [p \in Procs |-> [dirs |-> InitDirs, files |-> InitFiles]]
    /\ \E snake_str \in CamelInputs :
          call = [p \in Procs |->
                     IF p = Main
                     THEN [op |-> "to_camel_case", args |-> <<snake_str>>]
                     ELSE NoCall]
    /\ pc = [p \in Procs |-> IF p = Main THEN "tcc_eval" ELSE "idle"]
    /\ stack = [p \in Procs |-> <<>>]
    /\ lc = [p \in Procs |-> NoLc]
    /\ oc = [p \in Procs |-> NoOc]
    /\ rp = [p \in Procs |-> NoRp]
    /\ ct = [p \in Procs |-> NoCt]
    /\ result = [p \in Procs |-> NoResult]
    /\ ncalls = 1
    /\ copies = << >>

tcc_eval(p) ==
    /\ pc[p] = "tcc_eval"
    /\ Finish(p, Returned(to_camel_case(call[p].args[1])))
    /\ UNCHANGED <<dirs, files, call, pre, ncalls, copies>>

NextCamel == tcc_eval(Main)

SpecCamel == InitCamel /\ [][NextCamel]_vars

(***************************************************************************)
(* Properties.  Done(p): p's last call has ended; the call and the         *)
(* filesystem it started from are in call[p] and pre[p].                   *)
(***************************************************************************)
Done(p) == pc[p] = "done"

Succeeded(p) == Done(p) /\ result[p].kind = "return"

Failed(p, e) == Done(p) /\ result[p].kind = "raise" /\ result[p].value = e

Unchanged(p) == dirs = pre[p].dirs /\ files = pre[p].files

Contains(s, sub) ==
    \E i \in 1..(Len(s) - Len(sub) + 1) : SubSeq(s, i, i + Len(sub) - 1) = sub

\* the entries of the system temporary directory, at any depth
TempEntries(d) == {x \in d : IsUnder(x, TempRoot) /\ x # TempRoot}

\* C1: for every library_name of any letter casing and every existing out_dir
\* under which the library does not exist, a successful
\* library_create(library_name, out_dir) is followed by
\* library_exists(library_name, out_dir) returning true.
C1_CreateThenExists ==
    (/\ call[Main].op = "library_create"
     /\ call[Main].args[2] \in pre[Main].dirs
     /\ Join(call[Main].args[2], call[Main].args[1]) \notin pre[Main].dirs
     /\ Succeeded(Main))
    => library_exists(call[Main].args[1], call[Main].args[2]) = Returned(TRUE)

\* C2: for every existing operations_dir, every library_name with no library
\* under it and every operation_name, operation_create creates the library and
\* then the operation, returns operations_dir/library_name/operation_name, and
\* afterwards library_exists and operation_exists both return true.
C2_CreatesLibraryThenOperation ==
    (/\ call[Main].op = "operation_create"
     /\ call[Main].args[1] \in pre[Main].dirs
     /\ Join(call[Main].args[1], call[Main].args[2]) \notin pre[Main].dirs
     /\ Done(Main))
    => /\ result[Main].kind = "return"
       /\ result[Main].value =
              Join(Join(call[Main].args[1], call[Main].args[2]), call[Main].args[3])
       /\ library_exists(call[Main].args[2], call[Main].args[1]) = Returned(TRUE)
       /\ operation_exists(call[Main].args[1], call[Main].args[2], call[Main].args[3])
              = Returned(TRUE)

\* C3: when the library already exists under out_dir, library_create raises
\* LibraryException and the filesystem is, throughout the call and after it,
\* what it was before: nothing created, modified or removed, no temporary
\* directory made.
C3_ExistingLibraryRaises ==
    (/\ call[Main].op = "library_create"
     /\ Join(call[Main].args[2], call[Main].args[1]) \in pre[Main].dirs)
    => /\ Unchanged(Main)
       /\ pc[Main] \in {"lc_exists", "done"}
       /\ Done(Main) => Failed(Main, "LibraryException")

C3_Witness ==
    /\ call[Main].op = "library_create"
    /\ Join(call[Main].args[2], call[Main].args[1]) \in pre[Main].dirs
    /\ Failed(Main, "LibraryException")

OperationInit(args) == Join(Join(Join(args[1], args[2]), args[3]), INIT_PY)

\* C4: operation_create raises OperationException whenever the operation
\* exists when it is called; a successful operation_create leaves the
\* operation existing, and nothing outside the temporary directory is ever
\* removed, so every later operation_create with the same arguments raises
\* OperationException.
C4_ExistingOperationRaises ==
    /\ [](call[Main].op = "operation_create" /\ Done(Main)
            => /\ OperationInit(call[Main].args) \in DOMAIN pre[Main].files
                    => Failed(Main, "OperationException")
               /\ Succeeded(Main)
                    => /\ OperationInit(call[Main].args) \in DOMAIN files
                       /\ operation_exists(call[Main].args[1], call[Main].args[2],
                                           call[Main].args[3]) = Returned(TRUE))
    /\ [][/\ \A f \in DOMAIN files : ~IsUnder(f, TempRoot) => f \in DOMAIN files'
          /\ \A d \in dirs : ~IsUnder(d, TempRoot) => d \in dirs']_vars

C4_Witness ==
    /\ call[Main].op = "operation_create"
    /\ OperationInit(call[Main].args) \in DOMAIN pre[Main].files
    /\ Failed(Main, "OperationException")

\* the root directory argument of a call
RootOf(c) == IF c.op = "operation_exists" THEN c.args[1] ELSE c.args[2]

\* C5: when the root directory does not exist, library_exists and
\* operation_exists raise FileNotFoundError and never return false, and
\* library_create fails with FileNotFoundError having changed nothing.
C5_MissingRootRaises ==
    (/\ call[Main].op \in {"library_exists", "operation_exists", "library_create"}
     /\ RootOf(call[Main]) \notin pre[Main].dirs)
    => /\ Unchanged(Main)
       /\ Done(Main) => Failed(Main, "FileNotFoundError")

C5_Witness ==
    /\ call[Main].op = "library_create"
    /\ RootOf(call[Main]) \notin pre[Main].dirs
    /\ ncalls > 1
    /\ Failed(Main, "FileNotFoundError")

(***************************************************************************)
(* "Every occurrence replaced", stated without the scan of str_replace:    *)
(* the text is cut at the occurrences of the marker, found one after the   *)
(* other from the left, and the pieces are joined by the replacement.      *)
(***************************************************************************)
FirstOccurrence(s, sub) ==
    IF Contains(s, sub)
    THEN CHOOSE i \in 1..(Len(s) - Len(sub) + 1) :
             /\ SubSeq(s, i, i + Len(sub) - 1) = sub
             /\ \A j \in 1..(i - 1) : SubSeq(s, j, j + Len(sub) - 1) # sub
    ELSE 0

RECURSIVE Pieces(_, _)
Pieces(s, sub) ==
    IF FirstOccurrence(s, sub) = 0 THEN <<s>>
    ELSE <<SubSeq(s, 1, FirstOccurrence(s, sub) - 1)>>
           \o Pieces(SubSeq(s, FirstOccurrence(s, sub) + Len(sub), Len(s)), sub)

RECURSIVE Joined(_, _)
Joined(parts, sep) ==
    IF Len(parts) = 1 THEN parts[1]
    ELSE parts[1] \o sep \o Joined(Tail(parts), sep)

\* the empty marker occurs before every character and at the end
ReplaceAll(s, marker, replacement) ==
    IF marker = <<>>
    THEN Joined(<< <<>> >> \o [i \in 1..Len(s) |-> <<s[i]>>] \o << <<>> >>, replacement)
    ELSE Joined(Pieces(s, marker), replacement)

RECURSIVE FoldReplaceAll(_, _)
FoldReplaceAll(s, placeholders) ==
    IF placeholders = <<>> THEN s
    ELSE FoldReplaceAll(ReplaceAll(s, placeholders[1][1], placeholders[1][2]),
                        Tail(placeholders))

HelloFoo == <<"H", "e", "l", "l", "o", " ", "F", "o", "o">>

\* C6: for an existing file and any placeholders, replace_placeholders_in_file
\* returns with the file's content equal to the fold over the entries, in
\* order, of "replace every occurrence of the entry's marker in the current
\* content", every other file as it was; {NAME: Foo} on 'Hello NAME' gives
\* 'Hello Foo'.
C6_FoldOfReplaceAll ==
    (/\ call[Main].op = "replace_placeholders_in_file"
     /\ call[Main].args[1] \in DOMAIN pre[Main].files
     /\ Done(Main))
    => /\ Succeeded(Main)
       /\ dirs = pre[Main].dirs
       /\ DOMAIN files = DOMAIN pre[Main].files
       /\ \A f \in DOMAIN files :
              files[f] = IF f = call[Main].args[1]
                         THEN FoldReplaceAll(pre[Main].files[f], call[Main].args[2])
                         ELSE pre[Main].files[f]
       /\ (call[Main].args[2] = NAMEFoo /\ pre[Main].files[call[Main].args[1]] = HelloNAME)
              => files[call[Main].args[1]] = HelloFoo

\* the later marker "ab" is matched in the text the earlier entry produced
C6_Witness ==
    /\ call[Main].op = "replace_placeholders_in_file"
    /\ Done(Main)
    /\ call[Main].args[1] = ScratchFile
    /\ call[Main].args[2] = << <<<<"a">>, <<"a", "b">>>>, <<<<"a", "b">>, <<"b">>>> >>
    /\ pre[Main].files[ScratchFile] = <<"a">>
    /\ files[ScratchFile] = <<"b">>

(***************************************************************************)
(* The underscore-separated segments of a string, by the positions of its  *)
(* underscores.                                                            *)
(***************************************************************************)
Underscores(s) == {i \in 1..Len(s) : s[i] = "_"}

\* the position of the k-th underscore; 0 before the first segment and
\* Len(s) + 1 after the last
Cut(s, k) ==
    IF k = 0 THEN 0
    ELSE IF k > Cardinality(Underscores(s)) THEN Len(s) + 1
    ELSE CHOOSE i \in Underscores(s) :
             Cardinality({j \in Underscores(s) : j <= i}) = k

Segment(s, k) == SubSeq(s, Cut(s, k - 1) + 1, Cut(s, k) - 1)

TitledSegments(s) ==
    [k \in 1..(Cardinality(Underscores(s)) + 1) |-> str_title(Segment(s, k))]

\* C7: to_camel_case returns, for every string, the concatenation of its
\* title-cased underscore-separated segments, which holds no underscore;
\* 'make_http_request' gives 'MakeHttpRequest', 'a' gives 'A', '' gives ''.
C7_CamelCase ==
    (call[Main].op = "to_camel_case" /\ Done(Main))
    => /\ result[Main].kind = "return"
       /\ result[Main].value = str_join(TitledSegments(call[Main].args[1]))
       /\ \A i \in 1..Len(result[Main].value) : result[Main].value[i] # "_"
       /\ call[Main].args[1] = make_http_request => result[Main].value = MakeHttpRequest
       /\ call[Main].args[1] = <<"a">> => result[Main].value = <<"A">>
       /\ call[Main].args[1] = <<>> => result[Main].value = <<>>

C7_Witness ==
    /\ call[Main].op = "to_camel_case"
    /\ Done(Main)
    /\ call[Main].args[1] = make_http_request
    /\ result[Main].value = MakeHttpRequest

(***************************************************************************)
(* The destinations: the library directories ops/<library> and the         *)
(* operation directories ops/<library>/<operation>.                        *)
(***************************************************************************)
LibraryInits == {f \in DOMAIN files : Len(f) = 3 /\ f[1] = "ops" /\ f[3] = INIT_PY}

OperationInits == {f \in DOMAIN files : Len(f) = 4 /\ f[1] = "ops" /\ f[4] = INIT_PY}

TemplatesIntact ==
    /\ \A f \in DOMAIN InitFiles : f \in DOMAIN files /\ files[f] = InitFiles[f]
    /\ {f \in DOMAIN files : IsUnder(f, <<"operations">>)} = DOMAIN InitFiles
    /\ {d \in dirs : IsUnder(d, <<"operations">>)}
           = {d \in InitDirs : IsUnder(d, <<"operations">>)}

\* the steps of one creation in order: staged copy, substitution in the
\* staged initializer, copy to the destination, removal of the staged tree
StepsInOrder(p, replace, copy_dst, rmtree, return, tmp_dir, dst, template, marker, value) ==
    /\ pc[p] = replace =>
           /\ os_path_isfile(Join(tmp_dir, INIT_PY))
           /\ files[Join(tmp_dir, INIT_PY)] = template
    /\ pc[p] = copy_dst =>
           /\ os_path_isfile(Join(tmp_dir, INIT_PY))
           /\ files[Join(tmp_dir, INIT_PY)] = ReplaceAll(template, marker, value)
    /\ pc[p] = rmtree =>
           /\ os_path_isdir(tmp_dir)
           /\ os_path_isfile(Join(dst, INIT_PY))
    /\ pc[p] = return =>
           /\ ~os_path_isdir(tmp_dir)
           /\ os_path_isfile(Join(dst, INIT_PY))

CreationsInOrder ==
    /\ StepsInOrder(Main, "lc_replace", "lc_copy_dst", "lc_rmtree", "lc_return",
                    lc[Main].tmp_dir, library_new_path(Main), LibraryTemplateInit,
                    LIBRARYNAME, str_lower(Chars(lc[Main].library_name)))
    /\ StepsInOrder(Main, "oc_replace", "oc_copy_dst", "oc_rmtree", "oc_return",
                    oc[Main].tmp_dir, operation_new_path(Main), OperationTemplateInit,
                    NEWOPERATION, to_camel_case(Chars(oc[Main].operation_name)))

\* C8 as stated: the steps happen in order, so no destination initializer
\* ever holds its marker (LIBRARYNAME for a library, NEWOPERATION for an
\* operation), and the templates are never modified.
C8_NoMarkerInDestination ==
    /\ CreationsInOrder
    /\ TemplatesIntact
    /\ \A f \in LibraryInits : ~Contains(files[f], LIBRARYNAME)
    /\ \A f \in OperationInits : ~Contains(files[f], NEWOPERATION)

\* C8 as amended: the steps happen in order; every destination initializer is
\* the template's with every marker replaced by the lowercased library name,
\* or by the CamelCase operation name; a library's holds no LIBRARYNAME, an
\* operation's holds NEWOPERATION only where the CamelCase name itself does;
\* the templates are never modified.
C8_DestinationIsSubstitutedTemplate ==
    /\ CreationsInOrder
    /\ TemplatesIntact
    /\ \A f \in LibraryInits :
           /\ files[f] = ReplaceAll(LibraryTemplateInit, LIBRARYNAME, str_lower(Chars(f[2])))
           /\ ~Contains(files[f], LIBRARYNAME)
    /\ \A f \in OperationInits :
           /\ files[f] = ReplaceAll(OperationTemplateInit, NEWOPERATION,
                                    to_camel_case(Chars(f[3])))
           /\ Contains(files[f], NEWOPERATION)
                  => Contains(to_camel_case(Chars(f[3])), NEWOPERATION)

C8_Witness ==
    /\ pc[Main] = "oc_return"
    /\ <<"ops", "lib", "do_thing", INIT_PY>> \in DOMAIN files
    /\ files[<<"ops", "lib", "do_thing", INIT_PY>>]
           = <<"c", "l", "a", "s", "s", " ", "D", "o", "T", "h", "i", "n", "g", ":">>
    /\ files[<<"ops", "lib", INIT_PY>>]
           = <<"n", "a", "m", "e", " ", "=", " ", "'", "l", "i", "b", "'">>

\* C9: after a successful library_create or operation_create the temporary
\* directories on the filesystem are those there were before the call.
C9_TemporaryDirectoriesRemoved ==
    (call[Main].op \in {"library_create", "operation_create"} /\ Succeeded(Main))
    => TempEntries(dirs) = TempEntries(pre[Main].dirs)

(***************************************************************************)
(* Two concurrent calls with the same arguments.                           *)
(***************************************************************************)
LibraryArg(c) == IF c.op = "library_create" THEN c.args[1] ELSE c.args[2]

\* p and q made the same creation call, both passed its existence checks, p's
\* copy to the destination succeeded and q's found the destination taken
RaceOver(p, q) ==
    /\ p # q
    /\ call[p].op \in {"library_create", "operation_create"}
    /\ call[p] = call[q]
    /\ Implode(str_lower(Chars(LibraryArg(call[p])))) = LibraryArg(call[p])
    /\ Succeeded(p)
    /\ Failed(q, "FileExistsError")

Destinations == {d \in dirs : d[1] = "ops" /\ Len(d) \in {2, 3}}

Partial(d) == ~os_path_isfile(Join(d, INIT_PY))

StagedTrees == {d \in dirs : IsUnder(d, TempRoot) /\ Len(d) = 3}

\* C10 as stated: when two such calls have raced, the template has been
\* copied twice into one destination or a destination is left partial.
C10_RaceDuplicatesOrCorrupts ==
    \A p, q \in Procs :
        RaceOver(p, q)
        => \/ \E d \in DOMAIN copies : copies[d] >= 2
           \/ \E d \in Destinations : Partial(d)

\* C10 as amended: no destination is ever copied into twice; of two calls
\* with the same arguments at most one succeeds; a call whose copytree finds
\* the destination taken ends with FileExistsError and leaves its staged tree
\* behind; and when no call is running every destination is complete.
C10_RaceLoserFails ==
    /\ \A d \in DOMAIN copies : copies[d] <= 1
    /\ \A p, q \in Procs :
           (p # q /\ call[p] = call[q]) => ~(Succeeded(p) /\ Succeeded(q))
    /\ Cardinality(StagedTrees)
           >= Cardinality({p \in Procs : Failed(p, "FileExistsError")})
    /\ (\A p \in Procs : pc[p] \in {"idle", "done"})
           => \A d \in Destinations : ~Partial(d)

C10_Witness == \E p, q \in Procs : RaceOver(p, q)

====
